---- MODULE Spec2Model ----
(***************************************************************************)
(* BCH Quantum Wallet (NODEJS_Quantum_Version/server.js).                  *)
(*                                                                         *)
(* The file holds two server programs: the "manual" one (lines 1-188),     *)
(* with its own CashAddr codec, and the "library" one (lines 190-298),     *)
(* which asks mainnet-js for the address.  Both are modelled.              *)
(*                                                                         *)
(* JavaScript numbers.  The bitwise operators of JavaScript work on the    *)
(* 32-bit two's complement image of their operands (ToInt32 / ToUint32)    *)
(* and take shift counts modulo 32.  A 32-bit pattern is modelled as the   *)
(* set of its set bit positions (a subset of 0..31); a non-negative        *)
(* integer of any width is the set of the set bit positions of its binary  *)
(* form.  Small non-negative results (5-bit groups, bytes) are TLA+        *)
(* integers.                                                               *)
(***************************************************************************)
EXTENDS Integers, Sequences, FiniteSets, Bags, TLC

VARIABLES
    variant,    \* which of the two programs of the file runs: "manual" | "library"
    Wallet,     \* the module-level wallet-library handle (line 6 / line 192)
    listening,  \* the server: "starting" | "listening" | "failed" (the import failed)
    reqs,       \* the requests received, in flight or ended: a bag of records
    input,      \* pure-function specifications: the arguments drawn
    output      \* pure-function specifications: the value returned

vars == <<variant, Wallet, listening, reqs, input, output>>

----------------------------------------------------------------------------
(* Bit patterns *)

Pow2 == [i \in 0..30 |-> 2^i]

\* The set bits of a natural number below 2^31; those of the bytes are tabulated.
ByteBits == [n \in 0..255 |-> {i \in 0..7 : (n \div Pow2[i]) % 2 = 1}]
Bits(n) == IF n \in 0..255 THEN ByteBits[n]
           ELSE {i \in 0..30 : (n \div Pow2[i]) % 2 = 1}

RECURSIVE Num(_)
\* The natural number whose set bits are s (s within 0..30).
Num(s) == IF s = {} THEN 0
          ELSE LET i == CHOOSE j \in s : TRUE IN Pow2[i] + Num(s \ {i})

\* A number written as hexadecimal digits, most significant first.
HexBits(digits) ==
    UNION {{4 * (Len(digits) - k) + i : i \in Bits(digits[k])} : k \in 1..Len(digits)}

\* ToInt32 / ToUint32 of a non-negative integer: its low 32 bits.
ToInt32(b) == b \cap (0..31)

\* a << n
Shl(a, n) == {i + (n % 32) : i \in ToInt32(a)} \cap (0..31)

\* a >>> n
Shr(a, n) == {i - (n % 32) : i \in {j \in ToInt32(a) : j >= n % 32}}

\* a >> n
Sar(a, n) == Shr(a, n) \cup (IF 31 \in a THEN (32 - (n % 32))..31 ELSE {})

\* a & b, a | b, a ^ b
And(a, b) == ToInt32(a \cap b)
Or(a, b) == ToInt32(a \cup b)
Xor(a, b) == ToInt32((a \ b) \cup (b \ a))

----------------------------------------------------------------------------
(* calculateChecksum, lines 80-109 *)

\* 0x98f2bc8e61, 0x79b76d99e2, 0xf33e5fb3c4, 0xae2eabe2a8, 0x1e4f43e470
GENERATOR == <<
    HexBits(<<9, 8, 15, 2, 11, 12, 8, 14, 6, 1>>),
    HexBits(<<7, 9, 11, 7, 6, 13, 9, 9, 14, 2>>),
    HexBits(<<15, 3, 3, 14, 5, 15, 11, 3, 12, 4>>),
    HexBits(<<10, 14, 2, 14, 10, 11, 14, 2, 10, 8>>),
    HexBits(<<1, 14, 4, 15, 4, 3, 14, 4, 7, 0>>) >>

\* 0x07ffffffff
MASK35 == HexBits(<<0, 7, 15, 15, 15, 15, 15, 15, 15, 15>>)

\* In the two loops below the test "next \subseteq 0..31" is always true: it makes
\* TLC evaluate one turn's value before it enters the next turn.
RECURSIVE XorGenerators(_, _, _)
\* if (c0 & 0x01) c ^= ...; ... if (c0 & 0x10) c ^= ...;   (lines 87-91)
XorGenerators(c, c0, i) ==
    IF i > 5 THEN c
    ELSE LET next == IF And(c0, {i - 1}) # {} THEN Xor(c, GENERATOR[i]) ELSE c
         IN IF next \subseteq 0..31 THEN XorGenerators(next, c0, i + 1) ELSE {}

\* One turn of the loop of polyMod, lines 85-91.
polyModStep(c, d) ==
    LET c0 == Shr(c, 35)
        c1 == Xor(Shl(And(c, MASK35), 5), Bits(d))
    IN XorGenerators(c1, c0, 1)

RECURSIVE polyModFrom(_, _, _)
polyModFrom(c, data, k) ==
    IF k > Len(data) THEN c
    ELSE LET next == polyModStep(c, data[k])
         IN IF next \subseteq 0..31 THEN polyModFrom(next, data, k + 1) ELSE {}

\* polyMod, lines 82-94: the 32-bit pattern of the value returned.
polyMod(data) == Xor(polyModFrom({0}, data, 1), {0})

\* Strings are sequences of one-character strings.
Letters == <<"a", "b", "c", "d", "e", "f", "g", "h", "i", "j", "k", "l", "m",
             "n", "o", "p", "q", "r", "s", "t", "u", "v", "w", "x", "y", "z">>

\* prefix.charCodeAt(i), for the lower-case letters: "a" is 97.
charCodeAt(ch) == 96 + (CHOOSE k \in 1..Len(Letters) : Letters[k] = ch)

\* Lines 97-99: each character code & 0x1f, then one 0.
prefixData(prefix) ==
    [i \in 1..Len(prefix) |-> Num(And(Bits(charCodeAt(prefix[i])), Bits(31)))] \o <<0>>

calculateChecksum(prefix, payload) ==
    LET checksumData == prefixData(prefix) \o payload \o <<0, 0, 0, 0, 0, 0, 0, 0>>
        polymod == polyMod(checksumData)
    IN [i \in 1..8 |-> Num(And(Shr(polymod, 5 * (7 - (i - 1))), Bits(31)))]

----------------------------------------------------------------------------
(* convertBits, lines 58-78 *)

\* A JavaScript number with an integer value: its sign and the set bits of its
\* magnitude.  Number(n) is the TLA+ integer n as such a number.
Number(n) == [neg |-> n < 0, mag |-> Bits(IF n < 0 THEN -n ELSE n)]
Numbers(seq) == [i \in 1..Len(seq) |-> Number(seq[i])]

\* The value convertBits returns: null, or the array ret.
Null == [null |-> TRUE, ret |-> <<>>]
Array(ret) == [null |-> FALSE, ret |-> ret]

\* const maxv = (1 << toBits) - 1;   (toBits below 31)
maxv(toBits) == Bits(Num(Shl({0}, toBits)) - 1)

RECURSIVE convertBitsEmit(_, _, _, _)
\* while (bits >= toBits) { bits -= toBits; ret.push((acc >> bits) & maxv); }
convertBitsEmit(acc, bits, ret, toBits) ==
    IF bits >= toBits
    THEN convertBitsEmit(acc, bits - toBits,
                         Append(ret, Num(And(Sar(acc, bits - toBits), maxv(toBits)))),
                         toBits)
    ELSE [acc |-> acc, bits |-> bits, ret |-> ret]

\* if (value < 0 || (value >> fromBits) !== 0) return null;   (line 64)
convertBitsRejects(value, fromBits) ==
    (value.neg /\ value.mag # {}) \/ Sar(ToInt32(value.mag), fromBits) # {}

\* Lines 72-77, after the loop over data.
convertBitsFinishRejectingLeftover(st, fromBits, toBits, pad) ==
    IF pad
    THEN IF st.bits > 0
         THEN Array(Append(st.ret, Num(And(Shl(st.acc, toBits - st.bits), maxv(toBits)))))
         ELSE Array(st.ret)
    ELSE IF st.bits > 0 THEN Null ELSE Array(st.ret)

convertBitsFinish(st, fromBits, toBits, pad) ==
    IF pad
    THEN IF st.bits > 0
         THEN Array(Append(st.ret, Num(And(Shl(st.acc, toBits - st.bits), maxv(toBits)))))
         ELSE Array(st.ret)
    ELSE IF st.bits >= fromBits
            \/ And(Shl(st.acc, toBits - st.bits), maxv(toBits)) # {}
         THEN Null
         ELSE Array(st.ret)

RECURSIVE convertBitsFrom(_, _, _, _, _, _)
\* The loop over data, lines 63-71, from its k-th value on.
convertBitsFrom(st, data, k, fromBits, toBits, pad) ==
    IF k > Len(data) THEN convertBitsFinish(st, fromBits, toBits, pad)
    ELSE IF convertBitsRejects(data[k], fromBits) THEN Null
    ELSE LET acc == Or(Shl(st.acc, fromBits), data[k].mag)
             next == convertBitsEmit(acc, st.bits + fromBits, st.ret, toBits)
         IN \* always true after the inner loop; makes TLC evaluate this turn first
            IF next.bits < toBits
            THEN convertBitsFrom(next, data, k + 1, fromBits, toBits, pad)
            ELSE Null

\* data: a sequence of numbers (see Number).
convertBits(data, fromBits, toBits, pad) ==
    convertBitsFrom([acc |-> {}, bits |-> 0, ret |-> <<>>], data, 1, fromBits, toBits, pad)

----------------------------------------------------------------------------
(* toCashAddress, lines 33-56 *)

CHARSET == <<"q", "p", "z", "r", "y", "9", "x", "8", "g", "f", "2", "t", "v", "d", "w", "0",
             "s", "3", "j", "n", "5", "4", "k", "h", "c", "e", "6", "m", "u", "a", "7", "l">>

BITCOINCASH == <<"b", "i", "t", "c", "o", "i", "n", "c", "a", "s", "h">>

\* CHARSET[val]: the character, or undefined, which += appends as "undefined".
charAt(val) ==
    IF val \in 0..31 THEN <<CHARSET[val + 1]>>
    ELSE <<"u", "n", "d", "e", "f", "i", "n", "e", "d">>

RECURSIVE encodeChars(_, _)
\* for (let val of combined) addr += CHARSET[val];   (lines 52-54)
encodeChars(combined, k) ==
    IF k > Len(combined) THEN <<>> ELSE charAt(combined[k]) \o encodeChars(combined, k + 1)

\* The parameter's default, line 33: an omitted argument is 'p2sh'.
typeParam(arg) == IF arg = "undefined" THEN "p2sh" ELSE arg

typeByteSwapped(type) == IF type = "p2sh" THEN 0 ELSE 8

\* const typeByte = (type === 'p2sh') ? 0x08 : 0x00;   (line 35)
typeByte(type) == IF type = "p2sh" THEN 8 ELSE 0

toCashAddress(hash160Buffer, arg) ==
    LET prefix == BITCOINCASH
        payload == <<typeByte(typeParam(arg))>> \o hash160Buffer
        payload5Bit == convertBits(Numbers(payload), 8, 5, TRUE).ret
        checksum == calculateChecksum(prefix, payload5Bit)
        combined == payload5Bit \o checksum
    IN prefix \o <<":">> \o encodeChars(combined, 1)

----------------------------------------------------------------------------
(* Buffers, hex strings and the digests of the crypto module *)

HexDigits == <<"0", "1", "2", "3", "4", "5", "6", "7", "8", "9", "a", "b", "c", "d", "e", "f">>

\* buffer.toString('hex')
toHex(bytes) ==
    [n \in 1..(2 * Len(bytes)) |->
        LET b == bytes[(n + 1) \div 2]
        IN HexDigits[(IF n % 2 = 1 THEN b \div 16 ELSE b % 16) + 1]]

IsHexDigit(ch) == \E v \in 1..16 : HexDigits[v] = ch
hexValue(ch) == (CHOOSE v \in 1..16 : HexDigits[v] = ch) - 1

\* Buffer.from(str, 'hex'): whole pairs of hex digits, up to the first pair that
\* is not one; a last odd character is dropped.
fromHex(str) ==
    LET pairs == Len(str) \div 2
        good(j) == \A i \in 1..(2 * j) : IsHexDigit(str[i])
        n == CHOOSE j \in 0..pairs : good(j) /\ (j = pairs \/ ~good(j + 1))
    IN [k \in 1..n |-> 16 * hexValue(str[2 * k - 1]) + hexValue(str[2 * k])]

\* SHA-256 and RIPEMD-160 are primitives of the runtime, not code of the
\* repository.  Each is modelled by a deterministic digest of the right length
\* that tells apart the messages drawn here: what the
\* handlers do with a digest does not depend on its bits.
digestState(message, seed) ==
    LET f[k \in 0..Len(message)] ==
            IF k = 0 THEN seed ELSE (f[k - 1] * 31 + message[k] + 1) % 65521
    IN f[Len(message)]

digest(message, seed, length) ==
    LET h == digestState(message, seed)
    IN [i \in 1..length |-> ((h + i) * (2 * i + seed)) % 256]

\* crypto.createHash('sha256').update(m).digest()
sha256(message) == digest(message, 19, 32)

\* crypto.createHash('ripemd160').update(m).digest()
ripemd160(message) == digest(message, 7, 20)

\* Buffer.concat([Buffer.from('a820', 'hex'), secretHash, Buffer.from('87', 'hex')])
lockingScript(secretHash) ==
    fromHex(<<"a", "8", "2", "0">>) \o secretHash \o fromHex(<<"8", "7">>)

----------------------------------------------------------------------------
(* The checksum on a true 40-bit accumulator: the CashAddr checksum as it is
   specified, which the claims and the wallet library's addresses refer to *)

SymDiff(a, b) == (a \ b) \cup (b \ a)

RECURSIVE Ref40Generators(_, _, _)
Ref40Generators(c, c0, i) ==
    IF i > 5 THEN c
    ELSE LET next == IF (i - 1) \in c0 THEN SymDiff(c, GENERATOR[i]) ELSE c
         IN IF next \subseteq 0..39 THEN Ref40Generators(next, c0, i + 1) ELSE {}

Ref40Step(c, d) ==
    LET c0 == {i - 35 : i \in {j \in c : j >= 35}}
        c1 == SymDiff({i + 5 : i \in c \cap (0..34)}, Bits(d))
    IN Ref40Generators(c1, c0, 1)

RECURSIVE Ref40From(_, _, _)
Ref40From(c, data, k) ==
    IF k > Len(data) THEN c
    ELSE LET next == Ref40Step(c, data[k])
         IN IF next \subseteq 0..39 THEN Ref40From(next, data, k + 1) ELSE {}

Ref40PolyMod(data) == SymDiff(Ref40From({0}, data, 1), {0})

Ref40Checksum(prefix, payload) ==
    LET p == Ref40PolyMod(prefixData(prefix) \o payload \o <<0, 0, 0, 0, 0, 0, 0, 0>>)
    IN [i \in 1..8 |-> Num({b - 5 * (8 - i) : b \in p \cap ((5 * (8 - i))..(5 * (8 - i) + 4))})]

\* The CashAddr of a script hash with the 40-bit checksum.
Ref40CashAddress(hash160, type) ==
    LET payload5Bit == convertBits(Numbers(<<typeByte(type)>> \o hash160), 8, 5, TRUE).ret
    IN BITCOINCASH \o <<":">>
       \o encodeChars(payload5Bit \o Ref40Checksum(BITCOINCASH, payload5Bit), 1)

----------------------------------------------------------------------------
(* Requests, random draws and the replies of the wallet service *)

MaxRequests == 2
DUST == 1000

Undefined == [type |-> "undefined", chars |-> <<>>]
String(chars) == [type |-> "string", chars |-> chars]

\* What crypto.randomBytes(32) may give a vault: 32 zero bytes, or 1, 2, ..., 32.
RandomSecrets == {[i \in 1..32 |-> 0], [i \in 1..32 |-> i]}
\* What crypto.randomBytes(8) may give a simulated txid.
RandomTxids == {[i \in 1..8 |-> 16 * i]}

\* A draw from crypto.randomBytes: the bytes, or the error it throws.
Draws(S) == {[ok |-> TRUE, bytes |-> b, message |-> ""] : b \in S}
            \cup {[ok |-> FALSE, bytes |-> <<>>, message |-> "entropy unavailable"]}

\* The secrets a SWEEP request may carry: 32 bytes of hex, 31 bytes, 33 bytes,
\* 63 hex digits, 64 characters that are not hex digits, and none.
SweepSecrets ==
    {String(toHex([i \in 1..32 |-> 0])),
     String(toHex([i \in 1..31 |-> 0])),
     String(toHex([i \in 1..33 |-> 0])),
     String(SubSeq(toHex([i \in 1..32 |-> 0]), 1, 63)),
     String([i \in 1..64 |-> "z"]),
     Undefined}

SomeAddress == String(Ref40CashAddress([i \in 1..20 |-> 0], "p2sh"))

\* req.body: undefined, or an object with or without the fields.
NoBody == [defined |-> FALSE, secret |-> Undefined, address |-> Undefined]
BalanceBodies == {NoBody} \cup {[defined |-> TRUE, secret |-> Undefined, address |-> a] :
                                   a \in {Undefined, SomeAddress}}
SweepBodies == {NoBody} \cup {[defined |-> TRUE, secret |-> x, address |-> Undefined] :
                                 x \in SweepSecrets}

\* The wallet service (mainnet-js) answers a call or throws.
Thrown == [ok |-> FALSE, balance |-> 0, address |-> <<>>, message |-> "wallet service error"]
HandleReplies == {[ok |-> TRUE, balance |-> 0, address |-> <<>>, message |-> ""], Thrown}
BalanceReplies == {[ok |-> TRUE, balance |-> b, address |-> <<>>, message |-> ""] :
                      b \in {DUST - 1, DUST}} \cup {Thrown}

\* Wallet.fromP2SH(script).address is the wallet library's: the address it
\* derives from the script, not computed by this program.
libraryAddress(scriptHex) == <<"mainnet-js P2SH address of">> \o scriptHex

FromP2SHReplies(scriptHex) ==
    {[ok |-> TRUE, balance |-> 0, message |-> "", address |-> libraryAddress(scriptHex)],
     Thrown}

NoLocals == [settled |-> "none"]

NewRequest(op, body) ==
    [op |-> op, body |-> body, pc |-> "start", draws |-> <<>>, replies |-> <<>>,
     locals |-> NoLocals, calls |-> <<>>, responses |-> <<>>]

Failure(message) == [success |-> FALSE, error |-> message]

\* res.json(resp), the handler's last statement.
Finish(req, resp) ==
    [req EXCEPT !.pc = "done", !.locals = NoLocals, !.responses = Append(@, resp)]

\* A TypeError thrown by the destructuring of req.body, before the try: the async
\* handler's promise is rejected and nothing is sent by the handler.
Threw(req) == [req EXCEPT !.pc = "threw"]

Called(req, names) == [req EXCEPT !.calls = @ \o names]

\* One handler step: request req becomes next; nothing else is written.
Step(req, next) ==
    /\ reqs' = (reqs (-) SetToBag({req})) (+) SetToBag({next})
    /\ UNCHANGED <<variant, Wallet, listening, input, output>>

----------------------------------------------------------------------------
(* startServer, lines 15-28 *)

StartServerImported ==
    /\ variant = "manual"
    /\ listening = "starting"
    /\ Wallet' = "mainnet.Wallet"
    /\ listening' = "listening"
    /\ UNCHANGED <<variant, reqs, input, output>>

StartServerFailed ==
    /\ variant = "manual"
    /\ listening = "starting"
    /\ listening' = "failed"
    /\ UNCHANGED <<variant, Wallet, reqs, input, output>>

\* A request reaches its route.
Arrive(op, body) ==
    /\ listening = "listening"
    /\ BagCardinality(reqs) < MaxRequests
    /\ reqs' = reqs (+) SetToBag({NewRequest(op, body)})
    /\ UNCHANGED <<variant, Wallet, listening, input, output>>

----------------------------------------------------------------------------
(* createQuantumVault and GET /api/create *)

\* Lines 113-139, from the secret drawn.
manualVault(secret) ==
    LET secretHash == sha256(secret)
        scriptBuffer == lockingScript(secretHash)
        s256 == sha256(scriptBuffer)
        h160 == ripemd160(s256)
        address == toCashAddress(h160, "p2sh")
    IN [secret |-> toHex(secret), secretHash |-> toHex(secretHash),
        address |-> address, lockingScript |-> toHex(scriptBuffer)]

\* Lines 226-231, from the locals and the address the wallet library gave.
libraryVault(secret, secretHash, scriptBuffer, address) ==
    [secret |-> toHex(secret), secretHash |-> toHex(secretHash),
     address |-> address, lockingScript |-> toHex(scriptBuffer)]

Fulfilled(vault) == [settled |-> "fulfilled", vault |-> vault]
Rejected(message) == [settled |-> "rejected", message |-> message]

\* Lines 143-145 and 113-139: the handler calls createQuantumVault, which runs to
\* its end, and awaits the promise.
CreateStartManual(req) ==
    /\ variant = "manual"
    /\ req.op = "create" /\ req.pc = "start"
    /\ \E draw \in Draws(RandomSecrets) :
        Step(req,
            IF draw.ok
            THEN [Called(req, <<"randomBytes", "sha256", "sha256", "ripemd160", "toCashAddress">>)
                    EXCEPT !.pc = "awaitVault", !.draws = Append(@, draw),
                           !.locals = Fulfilled(manualVault(draw.bytes))]
            ELSE [Called(req, <<"randomBytes">>)
                    EXCEPT !.pc = "awaitVault", !.draws = Append(@, draw),
                           !.locals = Rejected(draw.message)])

\* Lines 237-239 and 209-224: createQuantumVault runs to its await of
\* Wallet.fromP2SH.
CreateStartLibrary(req) ==
    /\ variant = "library"
    /\ req.op = "create" /\ req.pc = "start"
    /\ \E draw \in Draws(RandomSecrets) :
        Step(req,
            IF draw.ok
            THEN LET secretHash == sha256(draw.bytes)
                     scriptBuffer == lockingScript(secretHash)
                 IN [Called(req, <<"randomBytes", "sha256", "Wallet.fromP2SH">>)
                       EXCEPT !.pc = "awaitFromP2SH", !.draws = Append(@, draw),
                              !.locals = [settled |-> "none", secret |-> draw.bytes,
                                          secretHash |-> secretHash,
                                          scriptBuffer |-> scriptBuffer]]
            ELSE [Called(req, <<"randomBytes">>)
                    EXCEPT !.pc = "awaitVault", !.draws = Append(@, draw),
                           !.locals = Rejected(draw.message)])

\* Lines 224-231: the wallet service answers, createQuantumVault returns the vault.
CreateFromP2SHReply(req) ==
    /\ variant = "library"
    /\ req.op = "create" /\ req.pc = "awaitFromP2SH"
    /\ \E reply \in FromP2SHReplies(toHex(req.locals.scriptBuffer)) :
        Step(req,
            [req EXCEPT !.pc = "awaitVault", !.replies = Append(@, reply),
                        !.locals =
                            IF reply.ok
                            THEN Fulfilled(libraryVault(req.locals.secret, req.locals.secretHash,
                                                        req.locals.scriptBuffer, reply.address))
                            ELSE Rejected(reply.message)])

\* The vault of the handler's await.
awaitedVault(req) == req.locals.vault

\* Were vault one variable of the module, not a const of each call: the vault
\* some request now holds.
sharedVault(req) ==
    LET holders == {q \in BagToSet(reqs) : q.op = "create" /\ q.pc = "awaitVault"
                                           /\ q.locals.settled = "fulfilled"}
    IN (CHOOSE q \in holders : TRUE).locals.vault

\* Lines 145-146 and 239-243: const vault = await createQuantumVault().
handlerVault(req) == awaitedVault(req)

\* Lines 146-150 and 240-246: res.json({ success: true, ...vault }), or the catch.
CreateRespond(req) ==
    /\ req.op = "create" /\ req.pc = "awaitVault"
    /\ Step(req,
        IF req.locals.settled = "fulfilled"
        THEN LET vault == handlerVault(req)
             IN Finish(req, [success |-> TRUE, secret |-> vault.secret,
                             secretHash |-> vault.secretHash, address |-> vault.address,
                             lockingScript |-> vault.lockingScript])
        ELSE Finish(req, Failure(req.locals.message)))

----------------------------------------------------------------------------
(* POST /api/balance, lines 153-162 and 250-259 *)

NoWallet == "Cannot read properties of undefined (reading 'watchOnly')"

\* const { address } = req.body; then, in the try, Wallet.watchOnly(address).
BalanceStart(req) ==
    /\ req.op = "balance" /\ req.pc = "start"
    /\ Step(req,
        IF ~req.body.defined THEN Threw(req)
        ELSE IF Wallet = "undefined" THEN Finish(req, Failure(NoWallet))
        ELSE [Called(req, <<"Wallet.watchOnly">>) EXCEPT !.pc = "awaitWatchOnly"])

\* Wallet.watchOnly answers: wallet.getBalance('sat') is called, or the catch.
BalanceWatchOnlyReply(req) ==
    /\ req.op = "balance" /\ req.pc = "awaitWatchOnly"
    /\ \E reply \in HandleReplies :
        Step(req,
            IF reply.ok
            THEN [Called(req, <<"getBalance">>)
                    EXCEPT !.pc = "awaitGetBalance", !.replies = Append(@, reply)]
            ELSE Finish([req EXCEPT !.replies = Append(@, reply)], Failure(reply.message)))

\* wallet.getBalance answers: res.json({ success: true, balance }), or the catch.
BalanceGetBalanceReply(req) ==
    /\ req.op = "balance" /\ req.pc = "awaitGetBalance"
    /\ \E reply \in BalanceReplies :
        Step(req,
            Finish([req EXCEPT !.replies = Append(@, reply)],
                   IF reply.ok THEN [success |-> TRUE, balance |-> reply.balance]
                   ELSE Failure(reply.message)))

----------------------------------------------------------------------------
(* POST /api/sweep *)

\* Buffer.from(undefined, 'hex') throws this TypeError.
NotAString == "The first argument must be of type string or an instance of Buffer, ArrayBuffer, or Array or an Array-like Object. Received undefined"

\* address.slice(0, 15)
slice15(address) == SubSeq(address, 1, IF Len(address) < 15 THEN Len(address) ELSE 15)

\* Lines 168-174: the address re-derived from the secret sent.
manualSweepAddress(secret) ==
    LET secretBuf == fromHex(secret)
        secretHash == sha256(secretBuf)
        scriptBuffer == lockingScript(secretHash)
        s256 == sha256(scriptBuffer)
        h160 == ripemd160(s256)
    IN toCashAddress(h160, "p2sh")

\* Lines 176-182, given the address and the bytes drawn for the txid.
manualSweepSuccess(address, txidBytes) ==
    [success |-> TRUE,
     message |-> <<"Vault ", slice15(address), "... Validated!">>,
     txid |-> <<"tx_simulated_", toHex(txidBytes)>>,
     debug |-> "Secret hash matches."]

\* Lines 164-186: the handler has no await and runs to its response.
SweepManual(req) ==
    /\ variant = "manual"
    /\ req.op = "sweep" /\ req.pc = "start"
    /\ \/ /\ ~req.body.defined
          /\ Step(req, Threw(req))
       \/ /\ req.body.defined
          /\ req.body.secret.type # "string"
          /\ Step(req, Finish(Called(req, <<"Buffer.from">>), Failure(NotAString)))
       \/ /\ req.body.defined
          /\ req.body.secret.type = "string"
          /\ LET address == manualSweepAddress(req.body.secret.chars)
                 ran == Called(req, <<"Buffer.from", "sha256", "sha256", "ripemd160",
                                      "toCashAddress", "randomBytes">>)
             IN \E draw \in Draws(RandomTxids) :
                    Step(req, Finish([ran EXCEPT !.draws = Append(@, draw)],
                                     IF draw.ok THEN manualSweepSuccess(address, draw.bytes)
                                     ELSE Failure(draw.message)))

\* Lines 262-275: up to the await of Wallet.fromP2SH.
SweepStart(req) ==
    /\ variant = "library"
    /\ req.op = "sweep" /\ req.pc = "start"
    /\ Step(req,
        IF ~req.body.defined THEN Threw(req)
        ELSE IF req.body.secret.type # "string"
        THEN Finish(Called(req, <<"Buffer.from">>), Failure(NotAString))
        ELSE LET secretBuf == fromHex(req.body.secret.chars)
                 secretHash == sha256(secretBuf)
                 scriptBuffer == lockingScript(secretHash)
             IN [Called(req, <<"Buffer.from", "sha256", "Wallet.fromP2SH">>)
                   EXCEPT !.pc = "awaitFromP2SH",
                          !.locals = [settled |-> "none", scriptBuffer |-> scriptBuffer]])

\* Lines 275-278: Wallet.fromP2SH answers: wallet.getBalance('sat') is called, or
\* the catch.
SweepFromP2SHReply(req) ==
    /\ variant = "library"
    /\ req.op = "sweep" /\ req.pc = "awaitFromP2SH"
    /\ \E reply \in FromP2SHReplies(toHex(req.locals.scriptBuffer)) :
        Step(req,
            IF reply.ok
            THEN [Called(req, <<"getBalance">>)
                    EXCEPT !.pc = "awaitGetBalance", !.replies = Append(@, reply),
                           !.locals = [settled |-> "none", wallet |-> reply.address]]
            ELSE Finish([req EXCEPT !.replies = Append(@, reply)], Failure(reply.message)))

InsufficientFunds == "Insufficient funds in vault."

librarySweepSuccess ==
    [success |-> TRUE,
     message |-> "Transaction Constructed (Simulation)",
     txid |-> "requires_full_node_implementation",
     debug |-> "Secret verified against hash."]

\* Lines 278-293: the balance arrives and is compared with 1000, or the catch.
SweepGetBalanceReply(req) ==
    /\ variant = "library"
    /\ req.op = "sweep" /\ req.pc = "awaitGetBalance"
    /\ \E reply \in BalanceReplies :
        Step(req,
            IF reply.ok
            THEN Finish([Called(req, <<"balance < 1000">>) EXCEPT !.replies = Append(@, reply)],
                        IF reply.balance < DUST THEN Failure(InsufficientFunds)
                        ELSE librarySweepSuccess)
            ELSE Finish([req EXCEPT !.replies = Append(@, reply)], Failure(reply.message)))

----------------------------------------------------------------------------
(* The server *)

\* The manual program starts with startServer() pending (line 188); the library
\* program has imported Wallet and called app.listen when its module has loaded
\* (lines 192 and 296).
Init ==
    /\ variant \in {"manual", "library"}
    /\ Wallet = (IF variant = "manual" THEN "undefined" ELSE "mainnet.Wallet")
    /\ listening = (IF variant = "manual" THEN "starting" ELSE "listening")
    /\ reqs = EmptyBag
    /\ input = <<>>
    /\ output = [fn |-> "pending"]

Next ==
    \/ StartServerImported
    \/ StartServerFailed
    \/ Arrive("create", NoBody)
    \/ \E body \in BalanceBodies : Arrive("balance", body)
    \/ \E body \in SweepBodies : Arrive("sweep", body)
    \/ \E req \in BagToSet(reqs) : CreateStartManual(req)
    \/ \E req \in BagToSet(reqs) : CreateStartLibrary(req)
    \/ \E req \in BagToSet(reqs) : CreateFromP2SHReply(req)
    \/ \E req \in BagToSet(reqs) : CreateRespond(req)
    \/ \E req \in BagToSet(reqs) : BalanceStart(req)
    \/ \E req \in BagToSet(reqs) : BalanceWatchOnlyReply(req)
    \/ \E req \in BagToSet(reqs) : BalanceGetBalanceReply(req)
    \/ \E req \in BagToSet(reqs) : SweepManual(req)
    \/ \E req \in BagToSet(reqs) : SweepStart(req)
    \/ \E req \in BagToSet(reqs) : SweepFromP2SHReply(req)
    \/ \E req \in BagToSet(reqs) : SweepGetBalanceReply(req)

Spec == Init /\ [][Next]_vars

----------------------------------------------------------------------------
(* The pure functions, each applied to arguments drawn from bounded sets *)

serverVars == <<variant, Wallet, listening, reqs>>

NoServer == /\ variant = "manual"
            /\ Wallet = "undefined"
            /\ listening = "starting"
            /\ reqs = EmptyBag

Pending == [fn |-> "pending"]

SeqsUpTo(S, n) == UNION {[1..k -> S] : k \in 0..n}

MaxPayloadLen == 2
MaxDataLen == 3
MaxBytesLen == 5

BCHTEST == <<"b", "c", "h", "t", "e", "s", "t">>
Prefixes == {BITCOINCASH, BCHTEST, <<"a">>}
Groups == 0..31

\* calculateChecksum, then the same polyMod over prefix, payload and checksum.
InitChecksum ==
    /\ NoServer
    /\ input \in [prefix : Prefixes, payload : SeqsUpTo(Groups, MaxPayloadLen)]
    /\ output = Pending

ApplyChecksum ==
    /\ output.fn = "pending"
    /\ output' = [fn |-> "calculateChecksum",
                  cs |-> calculateChecksum(input.prefix, input.payload)]
    /\ UNCHANGED <<serverVars, input>>

ApplyVerify ==
    /\ output.fn = "calculateChecksum"
    /\ output' = [fn |-> "polyMod", cs |-> output.cs,
                  value |-> polyMod(prefixData(input.prefix) \o input.payload \o output.cs)]
    /\ UNCHANGED <<serverVars, input>>

NextChecksum == ApplyChecksum \/ ApplyVerify

SpecChecksum == InitChecksum /\ [][NextChecksum]_vars

\* convertBits on any numbers: negative, in range, too large for fromBits, and
\* at and above 2^32 (4294967296 and 4294967301).
RepackValues == {Number(-1), Number(0), Number(1), Number(31), Number(32),
                 Number(255), Number(256),
                 [neg |-> FALSE, mag |-> {32}], [neg |-> FALSE, mag |-> {0, 2, 32}]}
Widths == {3, 5, 8}

InitRepack ==
    /\ NoServer
    /\ input \in [data : SeqsUpTo(RepackValues, MaxDataLen),
                  fromBits : Widths, toBits : Widths, pad : BOOLEAN]
    /\ output = Pending

ApplyConvertBits ==
    /\ output.fn = "pending"
    /\ output' = [fn |-> "convertBits",
                  result |-> convertBits(input.data, input.fromBits, input.toBits, input.pad)]
    /\ UNCHANGED <<serverVars, input>>

NextRepack == ApplyConvertBits

SpecRepack == InitRepack /\ [][NextRepack]_vars

\* Bytes to 5-bit groups with padding, and back without.
ByteSamples == {0, 1, 128, 165, 255}

InitRoundTrip ==
    /\ NoServer
    /\ input \in [bytes : SeqsUpTo(ByteSamples, MaxBytesLen) \ {<<>>}]
    /\ output = Pending

ApplyEncode ==
    /\ output.fn = "pending"
    /\ output' = [fn |-> "encode", enc |-> convertBits(Numbers(input.bytes), 8, 5, TRUE)]
    /\ UNCHANGED <<serverVars, input>>

ApplyDecode ==
    /\ output.fn = "encode"
    /\ ~output.enc.null
    /\ output' = [fn |-> "decode", enc |-> output.enc,
                  dec |-> convertBits(Numbers(output.enc.ret), 5, 8, FALSE)]
    /\ UNCHANGED <<serverVars, input>>

NextRoundTrip == ApplyEncode \/ ApplyDecode

SpecRoundTrip == InitRoundTrip /\ [][NextRoundTrip]_vars

\* toCashAddress on 20-byte hashes: one byte value throughout, but for one place.
HashBytes == {0, 1, 127, 128, 255}
Hashes == {[i \in 1..20 |-> IF i = k THEN b ELSE a] : a \in HashBytes, b \in HashBytes, k \in 1..20}
TypeArguments == {"p2sh", "p2pkh", "P2SH", "undefined"}

InitAddress ==
    /\ NoServer
    /\ input \in [hash : Hashes, type : TypeArguments]
    /\ output = Pending

ApplyToCashAddress ==
    /\ output.fn = "pending"
    /\ output' = [fn |-> "toCashAddress", addr |-> toCashAddress(input.hash, input.type)]
    /\ UNCHANGED <<serverVars, input>>

NextAddress == ApplyToCashAddress

SpecAddress == InitAddress /\ [][NextAddress]_vars

----------------------------------------------------------------------------
(* Claims *)

\* C1 (as stated): the code's polyMod over prefix, payload and the checksum
\* calculateChecksum returned is exactly 0.
C1_ChecksumValid == output.fn = "polyMod" => output.value = {}

\* C9 (as stated): calculateChecksum, with JavaScript's 32-bit operators, returns
\* the eight groups of the evaluation on a true 40-bit accumulator.
C9_MatchesFortyBit ==
    output.fn = "calculateChecksum" => output.cs = Ref40Checksum(input.prefix, input.payload)

\* C6: for bytes b, the padded 8-to-5 encoding is accepted by the unpadded 5-to-8
\* decoding, which returns b, or b less one trailing zero byte.
C6_RoundTrip ==
    output.fn = "decode" =>
        /\ ~output.dec.null
        /\ \/ output.dec.ret = input.bytes
           \/ output.dec.ret \o <<0>> = input.bytes

C6_Witness ==
    /\ output.fn = "decode"
    /\ Len(input.bytes) = 5
    /\ input.bytes[5] = 0
    /\ Len(output.enc.ret) = 8

\* C8: toCashAddress returns "bitcoincash:" and 42 characters of the alphabet, the
\* first of them 'p' for type 'p2sh' and 'q' for any other type.
C8_AddressFormat ==
    output.fn = "toCashAddress" =>
        /\ Len(output.addr) = Len(BITCOINCASH) + 1 + 42
        /\ SubSeq(output.addr, 1, 12) = BITCOINCASH \o <<":">>
        /\ \A k \in 13..Len(output.addr) : \E v \in 1..32 : CHARSET[v] = output.addr[k]
        /\ output.addr[13] = (IF typeParam(input.type) = "p2sh" THEN "p" ELSE "q")

C8_Witness ==
    /\ output.fn = "toCashAddress"
    /\ input.type = "p2pkh"
    /\ input.hash[20] = 255
    /\ output.addr[13] = "q"

\* The bits of the values of data, fromBits of each, most significant first.
BitString(data, fromBits) ==
    [n \in 1..(Len(data) * fromBits) |->
        LET k == (n - 1) \div fromBits + 1
            b == fromBits - 1 - ((n - 1) % fromBits)
        IN IF b \in data[k].mag THEN 1 ELSE 0]

Leftover(data, fromBits, toBits) == (Len(data) * fromBits) % toBits

LeftoverNonZero(data, fromBits, toBits) ==
    LET total == Len(data) * fromBits
    IN \E n \in (total - Leftover(data, fromBits, toBits) + 1)..total :
           BitString(data, fromBits)[n] = 1

\* value < 0, or value >= 2^fromBits
OutOfRange(value, fromBits) ==
    (value.neg /\ value.mag # {}) \/ \E b \in value.mag : b >= fromBits

ClaimedFailure(in) ==
    \/ \E k \in 1..Len(in.data) : OutOfRange(in.data[k], in.fromBits)
    \/ /\ ~in.pad
       /\ \/ Leftover(in.data, in.fromBits, in.toBits) >= in.fromBits
          \/ LeftoverNonZero(in.data, in.fromBits, in.toBits)

RepackConforms(in, result) ==
    /\ result.null <=> ClaimedFailure(in)
    /\ result.null => result.ret = <<>>
    /\ ~result.null =>
        /\ \A k \in 1..Len(result.ret) : result.ret[k] \in 0..(2^in.toBits - 1)
        /\ Len(result.ret) = (Len(in.data) * in.fromBits) \div in.toBits
                             + (IF in.pad /\ Leftover(in.data, in.fromBits, in.toBits) > 0
                                THEN 1 ELSE 0)

\* C10 (as stated): convertBits returns null exactly when a value is negative or
\* >= 2^fromBits, or, unpadded, when the leftover bits are fromBits or more or not
\* all zero; otherwise every element is below 2^toBits, and with pad one more
\* group is appended exactly when leftover bits remain.
C10_FailureConditions ==
    output.fn = "convertBits" => RepackConforms(input, output.result)

\* The same, for values below 2^31 only: there the statement holds.
C10_Below2To31 ==
    (output.fn = "convertBits" /\ \A k \in 1..Len(input.data) : input.data[k].mag \subseteq 0..30)
        => RepackConforms(input, output.result)

----------------------------------------------------------------------------
(* Claims about the server *)

Requests == BagToSet(reqs)
Ended(req) == req.pc \in {"done", "threw"}
Range(seq) == {seq[k] : k \in 1..Len(seq)}

\* The address a vault of this script is to carry: the CashAddr, type script hash,
\* of RIPEMD160(SHA256(script)); in the library program, what the wallet library
\* derives from the script.
ScriptHashAddress(script) ==
    IF variant = "library" THEN libraryAddress(toHex(script))
    ELSE Ref40CashAddress(ripemd160(sha256(script)), "p2sh")

VaultConsistent(resp, address) ==
    LET secret == fromHex(resp.secret)
        script == fromHex(resp.lockingScript)
    IN /\ Len(secret) = 32 /\ toHex(secret) = resp.secret
       /\ resp.secretHash = toHex(sha256(secret))
       /\ Len(script) = 35 /\ toHex(script) = resp.lockingScript
       /\ script = <<168, 32>> \o sha256(secret) \o <<135>>
       /\ resp.address = address

\* C2 (as stated): every successful CREATE_VAULT response has a 32-byte secret,
\* secretHash = SHA256(secret), lockingScript = a8 20 secretHash 87, and for
\* address the script-hash CashAddr of RIPEMD160(SHA256(lockingScript)).
C2_VaultConsistent ==
    \A req \in Requests : req.op = "create" =>
        \A resp \in Range(req.responses) : resp.success =>
            VaultConsistent(resp, ScriptHashAddress(fromHex(resp.lockingScript)))

\* The same with the address as toCashAddress encodes it (the 32-bit checksum):
\* the four fields do come from one secret.
C2_UpToChecksum ==
    \A req \in Requests : (req.op = "create" /\ variant = "manual") =>
        \A resp \in Range(req.responses) : resp.success =>
            VaultConsistent(resp, toCashAddress(ripemd160(sha256(fromHex(resp.lockingScript))), "p2sh"))

\* C3 (as stated): a SWEEP whose reported balance is below 1000 is answered
\* {success:false, "Insufficient funds..."}, and no SWEEP is answered with success
\* unless the balance was obtained and compared with the threshold first.
C3_DustThreshold ==
    \A req \in Requests : req.op = "sweep" =>
        /\ \A resp \in Range(req.responses) : resp.success =>
              /\ "getBalance" \in Range(req.calls)
              /\ "balance < 1000" \in Range(req.calls)
              /\ \E reply \in Range(req.replies) : reply.ok /\ reply.balance >= DUST
        /\ (req.pc = "done" /\ Len(req.replies) = 2 /\ req.replies[2].ok
              /\ req.replies[2].balance < DUST)
              => req.responses = <<Failure(InsufficientFunds)>>

\* A secret that decodes as exactly 32 bytes of hex.
ValidSecret(secret) ==
    /\ secret.type = "string"
    /\ Len(secret.chars) = 64
    /\ \A k \in 1..64 : IsHexDigit(secret.chars[k])

\* C4 (as stated): a SWEEP secret that is not exactly 32 bytes of hex is rejected
\* with a failure response, before any hashing or address derivation.
C4_SecretValidated ==
    \A req \in Requests : (req.op = "sweep" /\ req.body.defined /\ ~ValidSecret(req.body.secret)) =>
        /\ Range(req.calls) \cap {"sha256", "ripemd160", "toCashAddress", "Wallet.fromP2SH"} = {}
        /\ req.pc = "done" => (Len(req.responses) = 1 /\ ~req.responses[1].success)

\* C5 (as stated): handling of every request ends with exactly one response, a
\* success object or {success:false, error}; no failure leaves the handler
\* unconverted.
C5_OneUniformResponse ==
    \A req \in Requests :
        /\ Len(req.responses) <= 1
        /\ Ended(req) =>
              /\ Len(req.responses) = 1
              /\ req.responses[1].success \/ "error" \in DOMAIN req.responses[1]

\* The responses of the handler run alone on the request's input, with the draws
\* and the wallet-service replies the request got.
AloneCreate(v, req) ==
    IF ~req.draws[1].ok THEN <<Failure(req.draws[1].message)>>
    ELSE IF v = "manual"
    THEN LET vault == manualVault(req.draws[1].bytes)
         IN <<[success |-> TRUE, secret |-> vault.secret, secretHash |-> vault.secretHash,
               address |-> vault.address, lockingScript |-> vault.lockingScript]>>
    ELSE IF ~req.replies[1].ok THEN <<Failure(req.replies[1].message)>>
    ELSE LET secretHash == sha256(req.draws[1].bytes)
         IN <<[success |-> TRUE, secret |-> toHex(req.draws[1].bytes),
               secretHash |-> toHex(secretHash), address |-> req.replies[1].address,
               lockingScript |-> toHex(lockingScript(secretHash))]>>

AloneBalance(req) ==
    IF ~req.body.defined THEN <<>>
    ELSE IF ~req.replies[1].ok THEN <<Failure(req.replies[1].message)>>
    ELSE IF ~req.replies[2].ok THEN <<Failure(req.replies[2].message)>>
    ELSE <<[success |-> TRUE, balance |-> req.replies[2].balance]>>

AloneSweep(v, req) ==
    IF ~req.body.defined THEN <<>>
    ELSE IF req.body.secret.type # "string" THEN <<Failure(NotAString)>>
    ELSE IF v = "manual"
    THEN IF req.draws[1].ok
         THEN <<manualSweepSuccess(manualSweepAddress(req.body.secret.chars), req.draws[1].bytes)>>
         ELSE <<Failure(req.draws[1].message)>>
    ELSE IF ~req.replies[1].ok THEN <<Failure(req.replies[1].message)>>
    ELSE IF ~req.replies[2].ok THEN <<Failure(req.replies[2].message)>>
    ELSE IF req.replies[2].balance < DUST THEN <<Failure(InsufficientFunds)>>
    ELSE <<librarySweepSuccess>>

AloneResponses(v, req) ==
    CASE req.op = "create" -> AloneCreate(v, req)
      [] req.op = "balance" -> AloneBalance(req)
      [] req.op = "sweep" -> AloneSweep(v, req)

\* C7: once the server listens, no handler step writes the module-level Wallet
\* (or any state but its own request's), a request that ends keeps nothing, and
\* its response is the one the handler gives run alone with the same input,
\* random draws and wallet-service replies, whatever the other requests did.
C7_Stateless ==
    [][ /\ listening = "listening" =>
              (Wallet' = Wallet /\ listening' = listening /\ variant' = variant)
        /\ \A req \in BagToSet(reqs') :
              (Ended(req) /\ CopiesIn(req, reqs') > CopiesIn(req, reqs)) =>
                  /\ req.locals = NoLocals
                  /\ req.responses = AloneResponses(variant, req)
      ]_vars

\* Two vaults of different secrets are held by two requests at their awaits.
C7_Witness ==
    \E a \in Requests, b \in Requests :
        /\ a.op = "create" /\ a.pc = "awaitVault" /\ a.locals.settled = "fulfilled"
        /\ b.op = "create" /\ b.pc = "awaitVault" /\ b.locals.settled = "fulfilled"
        /\ a.locals.vault.secret # b.locals.vault.secret

====
